---- MODULE Spec2Model ----
(***************************************************************************)
(* State-machine model of gdext-egui's EguiBridge (src/src/lib.rs): the    *)
(* per-tick frame loop (on_process), the reconciliation of the UI          *)
(* library's FullOutput (handle_output), viewport spawn/despawn, the       *)
(* texture registry, the canvas-item pool and the per-viewport             *)
(* EguiViewportIoBridge notification handlers.                             *)
(*                                                                         *)
(* The UI library (egui) and the host (Godot) are environments: the        *)
(* FullOutput returned by end_frame, the tessellated primitives, the       *)
(* success of host image/texture creation, the display bounding box and    *)
(* the passage of time are inputs drawn from bounded sets.                 *)
(*                                                                         *)
(* Option<T> is modelled as a sequence: None is <<>>, Some(x) is <<x>>.    *)
(* A Rust panic ends the handler where it is raised; the godot-rust glue   *)
(* catches it at the callback boundary, so every mutation made before the  *)
(* panic is kept and the host keeps calling the handlers afterwards.       *)
(***************************************************************************)
EXTENDS Integers, Sequences, FiniteSets, TLC

(* ------------------------------- bounds -------------------------------- *)

\* Number of viewport ids besides ROOT.
MaxViewports == 1
\* Values a window-configuration field can take besides "not specified".
MaxCfg == 1
\* Last instant of the clock.
MaxTime == 2
\* Largest delay passed to the repaint-request callback.
MaxDelay == 1
\* Largest number of host windows alive at once (windows are never released).
MaxWindows == 2
\* Distinct display bounding boxes the host can report.
MaxScreens == 1
\* Distinct rectangles a control can report as its global rectangle.
MaxRects == 2
\* Texture ids used by the UI library.
MaxTextures == 2
\* Longest list of "set" deltas / of "free" deltas in one output.
MaxDeltas == 1
\* Largest number of tessellated primitives in one frame.
MaxPrims == 2

(* ------------------------------ data model ----------------------------- *)

None == <<>>
Some(x) == <<x>>

ROOT == 0
ViewportIds == 0..MaxViewports
TextureIds == 1..MaxTextures

\* egui::ViewportBuilder reduced to two optional fields: one that patch()
\* turns into an in-place command (title) and one that forces the window to
\* be recreated (active).
CfgValues == {None} \cup {Some(v) : v \in 1..MaxCfg}
ViewportBuilders == [title : CfgValues, active : CfgValues]
DefaultBuilder == [title |-> None, active |-> None]

\* egui::ViewportInfo, the fields the bridge writes.
DefaultViewportInfo == [focused |-> None, inner_rect |-> None]

Range(s) == {s[i] : i \in DOMAIN s}
SeqsUpTo(S, n) == UNION {[1..k -> S] : k \in 0..n}
Min(a, b) == IF a < b THEN a ELSE b

\* Map helpers (HashMap insert / remove).
MapInsert(m, k, v) == [x \in DOMAIN m \cup {k} |-> IF x = k THEN v ELSE m[x]]
MapRemove(m, k) == [x \in DOMAIN m \ {k} |-> m[x]]
EmptyMap == [x \in {} |-> 0]

VARIABLES
  in_tree,              \* the bridge node is inside the host scene tree
  started,              \* EguiBridge.started
  viewports,            \* EguiBridge.viewports : id -> ViewportContext
  textures,             \* EguiBridge.textures  : texture id -> TextureDescriptor
  canvas_items,         \* EguiBridge.canvas_items : Vec<Rid>
  share,                \* EguiBridge.share : SharedContext
  cached_screen_rect,   \* EguiBridge.cached_screen_rect
  nodes,                \* host scene tree below the bridge: handle -> node
  rs_items,             \* host RenderingServer canvas items: rid -> content
  clock,                \* Instant::now()
  tex_last,             \* per texture id, the last delta processed and its outcome
  last                  \* report of the last handler that ran

vars == <<in_tree, started, viewports, textures, canvas_items, share,
          cached_screen_rect, nodes, rs_items, clock, tex_last, last>>

bridge_state == <<started, viewports, textures, canvas_items, share,
                  cached_screen_rect, nodes, rs_items>>

(* ------------------------------ host scene ----------------------------- *)

BRIDGE == 0    \* handle of the bridge node itself (parent of top-level children)

\* new_alloc(): a handle no live node uses.
NewHandle(ns) == CHOOSE h \in 1..(Cardinality(DOMAIN ns) + 1) : h \notin DOMAIN ns

\* queue_free(): the node and the nodes below it leave the tree.
RECURSIVE Descendants(_, _)
Descendants(ns, h) ==
  LET kids == {k \in DOMAIN ns : ns[k].parent = h}
  IN  {h} \cup UNION {Descendants(ns, k) : k \in kids}

QueueFree(ns, h) == [x \in DOMAIN ns \ Descendants(ns, h) |-> ns[x]]

HostWindows == {h \in DOMAIN nodes : nodes[h].class = "Window"}
HostControls == {h \in DOMAIN nodes : nodes[h].class = "Control"}

(* ------------------- the bridge while a handler runs ------------------- *)

\* What a handler did, kept until the next handler runs.
EmptyTrace ==
  [spawned   |-> <<>>,   \* spawn_viewport calls: [id, windowed, control, window]
   despawned |-> <<>>,   \* despawn_viewport calls: viewport ids
   created   |-> <<>>,   \* host nodes created: [class, handle, vid]
   released  |-> <<>>,   \* host nodes released: [class, handle, vid, parent]
   callbacks |-> <<>>,   \* deferred viewport_ui_cb invoked: viewport ids
   repainted |-> <<>>,   \* handle_output's local repainted_viewports
   redrawn   |-> <<>>,   \* controls told queue_redraw: viewport ids
   logs      |-> <<>>,   \* godot_error! / godot_warn! lines: [level, what, id]
   painted   |-> <<>>,   \* per primitive: "mesh", "empty", "missing_texture"
   tex       |-> <<>>,   \* texture deltas processed, see TexEvent
   ui_calls  |-> <<>>,   \* calls into the UI library: [call, held]
   steps     |-> <<>>]   \* texture deltas and primitives in the order they
                         \* were processed: "set", "paint", "free"

\* The mutable things a handler of the bridge can touch.
World ==
  [viewports |-> viewports, textures |-> textures, canvas_items |-> canvas_items,
   share |-> share, nodes |-> nodes, rs_items |-> rs_items,
   tex_last |-> tex_last, tr |-> EmptyTrace, panic |-> "none", held |-> {}]

(* ------------------------ mutexes and UI library calls ----------------- *)

\* The mutexes of SharedContext (lib.rs:70-73) and the one around each
\* viewport's input snapshot (lib.rs:643).
ShareLock(name) == <<name, BRIDGE>>
InputLock(id) == <<"input", id>>

\* Mutex::lock().  The mutexes are not reentrant: locking one the caller
\* already holds never returns.
Lock(w, l) ==
  IF w.panic # "none" THEN w
  ELSE IF l \in w.held THEN [w EXCEPT !.panic = "self_deadlock"]
  ELSE [w EXCEPT !.held = @ \cup {l}]

\* The guard is dropped.
Unlock(w, l) == [w EXCEPT !.held = @ \ {l}]

\* A guard that lives for a block or a statement: locked is the bridge once
\* the mutex l is taken, updated the bridge after the code run under the
\* guard, and the guard is dropped at the end.
Under(locked, updated, l) ==
  IF locked.panic # "none" THEN locked ELSE Unlock(updated, l)

\* lib.rs:111-118, the closure given to set_request_repaint_callback.
request_repaint_callback(w, viewport_id, delay, now) ==
  Under(Lock(w, ShareLock("repaint_schedule")),
        [Lock(w, ShareLock("repaint_schedule")) EXCEPT
           !.share.repaint_schedule = MapInsert(@, viewport_id, now + delay)],
        ShareLock("repaint_schedule"))

\* A call into the UI library with the mutexes the caller holds at that
\* point.  requested is the viewport, if any, for which the library asks for
\* an immediate repaint while the call runs: it then invokes the repaint
\* callback on the caller's stack.
UiCall(w, call, requested, now) ==
  IF w.panic # "none" THEN w
  ELSE IF requested = None
  THEN [w EXCEPT !.tr.ui_calls = Append(@, [call |-> call, held |-> w.held])]
  ELSE request_repaint_callback(
         [w EXCEPT !.tr.ui_calls = Append(@, [call |-> call, held |-> w.held])],
         requested[1], 0, now)

(* ----------------------- spawn_viewport / despawn ---------------------- *)

\* Variant: the requested window configuration is not stored as baseline.
spawn_viewport_setup_dropped(w, id, windowing) ==
  LET gd_control == NewHandle(w.nodes)
      vp0 == [control |-> gd_control, parent_id |-> None, window |-> None,
              input |-> DefaultViewportInfo, window_setup |-> DefaultBuilder]
  IN  IF windowing # None
      THEN LET parent      == windowing[1][1]
               window_init == windowing[1][2]
               window      == CHOOSE h \in 1..(Cardinality(DOMAIN w.nodes) + 2) :
                                h \notin DOMAIN w.nodes /\ h # gd_control
               vp == [vp0 EXCEPT !.parent_id = Some(parent)]
               ns == [h \in DOMAIN w.nodes \cup {window, gd_control} |->
                        IF h = window
                        THEN [class |-> "Window", parent |-> BRIDGE, vid |-> id]
                        ELSE IF h = gd_control
                        THEN [class |-> "Control", parent |-> window, vid |-> id]
                        ELSE w.nodes[h]]
           IN  [w EXCEPT !.nodes = ns,
                         !.viewports = MapInsert(w.viewports, id, vp),
                         !.tr.created = @ \o
                            <<[class |-> "Control", handle |-> gd_control, vid |-> id],
                              [class |-> "Window", handle |-> window, vid |-> id]>>,
                         !.tr.spawned = Append(@, [id |-> id, windowed |-> TRUE,
                                                   control |-> gd_control,
                                                   window |-> Some(window)])]
      ELSE LET ns == MapInsert(w.nodes, gd_control,
                        [class |-> "Control", parent |-> BRIDGE, vid |-> id])
           IN  [w EXCEPT !.nodes = ns,
                         !.viewports = MapInsert(w.viewports, id, vp0),
                         !.tr.created = Append(@, [class |-> "Control",
                                                   handle |-> gd_control, vid |-> id]),
                         !.tr.spawned = Append(@, [id |-> id, windowed |-> FALSE,
                                                   control |-> gd_control,
                                                   window |-> None])]

\* Variant: the control is added below the bridge even when a window was made.
spawn_viewport_control_under_bridge(w, id, windowing) ==
  LET gd_control == NewHandle(w.nodes)
      vp0 == [control |-> gd_control, parent_id |-> None, window |-> None,
              input |-> DefaultViewportInfo, window_setup |-> DefaultBuilder]
  IN  IF windowing # None
      THEN LET parent      == windowing[1][1]
               window_init == windowing[1][2]
               window      == CHOOSE h \in 1..(Cardinality(DOMAIN w.nodes) + 2) :
                                h \notin DOMAIN w.nodes /\ h # gd_control
               vp == [vp0 EXCEPT !.window_setup = window_init,
                                 !.parent_id = Some(parent)]
               ns == [h \in DOMAIN w.nodes \cup {window, gd_control} |->
                        IF h = window
                        THEN [class |-> "Window", parent |-> BRIDGE, vid |-> id]
                        ELSE IF h = gd_control
                        THEN [class |-> "Control", parent |-> BRIDGE, vid |-> id]
                        ELSE w.nodes[h]]
           IN  [w EXCEPT !.nodes = ns,
                         !.viewports = MapInsert(w.viewports, id, vp),
                         !.tr.created = @ \o
                            <<[class |-> "Control", handle |-> gd_control, vid |-> id],
                              [class |-> "Window", handle |-> window, vid |-> id]>>,
                         !.tr.spawned = Append(@, [id |-> id, windowed |-> TRUE,
                                                   control |-> gd_control,
                                                   window |-> Some(window)])]
      ELSE LET ns == MapInsert(w.nodes, gd_control,
                        [class |-> "Control", parent |-> BRIDGE, vid |-> id])
           IN  [w EXCEPT !.nodes = ns,
                         !.viewports = MapInsert(w.viewports, id, vp0),
                         !.tr.created = Append(@, [class |-> "Control",
                                                   handle |-> gd_control, vid |-> id]),
                         !.tr.spawned = Append(@, [id |-> id, windowed |-> FALSE,
                                                   control |-> gd_control,
                                                   window |-> None])]

\* fn spawn_viewport(&mut self, id, windowing: Option<(ViewportId, ViewportBuilder)>)
spawn_viewport(w, id, windowing) ==
  LET gd_control == NewHandle(w.nodes)
      vp0 == [control |-> gd_control, parent_id |-> None, window |-> None,
              input |-> DefaultViewportInfo, window_setup |-> DefaultBuilder]
  IN  IF windowing # None
      THEN LET parent      == windowing[1][1]
               window_init == windowing[1][2]
               window      == CHOOSE h \in 1..(Cardinality(DOMAIN w.nodes) + 2) :
                                h \notin DOMAIN w.nodes /\ h # gd_control
               vp == [vp0 EXCEPT !.window_setup = window_init,
                                 !.parent_id = Some(parent)]
               ns == [h \in DOMAIN w.nodes \cup {window, gd_control} |->
                        IF h = window
                        THEN [class |-> "Window", parent |-> BRIDGE, vid |-> id]
                        ELSE IF h = gd_control
                        THEN [class |-> "Control", parent |-> window, vid |-> id]
                        ELSE w.nodes[h]]
           IN  [w EXCEPT !.nodes = ns,
                         !.viewports = MapInsert(w.viewports, id, vp),
                         !.tr.created = @ \o
                            <<[class |-> "Control", handle |-> gd_control, vid |-> id],
                              [class |-> "Window", handle |-> window, vid |-> id]>>,
                         !.tr.spawned = Append(@, [id |-> id, windowed |-> TRUE,
                                                   control |-> gd_control,
                                                   window |-> Some(window)])]
      ELSE LET ns == MapInsert(w.nodes, gd_control,
                        [class |-> "Control", parent |-> BRIDGE, vid |-> id])
           IN  [w EXCEPT !.nodes = ns,
                         !.viewports = MapInsert(w.viewports, id, vp0),
                         !.tr.created = Append(@, [class |-> "Control",
                                                   handle |-> gd_control, vid |-> id]),
                         !.tr.spawned = Append(@, [id |-> id, windowed |-> FALSE,
                                                   control |-> gd_control,
                                                   window |-> None])]

\* Variant: the window above the control is released first.
despawn_viewport_window_first(w, id) ==
  LET context == w.viewports[id]
      parent  == w.nodes[context.control].parent
      w0 == IF parent # BRIDGE
            THEN [w EXCEPT !.tr.released = Append(@, [class |-> "Window",
                                                      handle |-> parent, vid |-> id,
                                                      parent |-> BRIDGE])]
            ELSE w
  IN  [w0 EXCEPT !.viewports = MapRemove(w.viewports, id),
                 !.tr.despawned = Append(@, id),
                 !.nodes = QueueFree(@, IF parent # BRIDGE THEN parent
                                        ELSE context.control),
                 !.tr.released = Append(@, [class |-> "Control",
                                            handle |-> context.control,
                                            vid |-> id, parent |-> parent])]

\* fn despawn_viewport(&mut self, id)
despawn_viewport(w, id) ==
  LET context == w.viewports[id]
      w1 == [w EXCEPT !.viewports = MapRemove(w.viewports, id),
                      !.tr.despawned = Append(@, id),
                      !.nodes = QueueFree(@, context.control),
                      !.tr.released = Append(@, [class |-> "Control",
                                                 handle |-> context.control,
                                                 vid |-> id,
                                                 parent |-> w.nodes[context.control].parent])]
  IN  IF context.window # None
      THEN [w1 EXCEPT !.nodes = QueueFree(@, context.window[1]),
                      !.tr.released = Append(@, [class |-> "Window",
                                                 handle |-> context.window[1],
                                                 vid |-> id, parent |-> BRIDGE])]
      ELSE w1

(* --------------------- window configuration diffing -------------------- *)

\* egui::ViewportBuilder::patch as called at lib.rs:314: every field the new
\* builder specifies and that differs is stored into self; a differing title
\* yields a command, a differing `active` demands recreation.
PatchedBuilder(setup, new) ==
  [title  |-> IF new.title # None /\ new.title # setup.title
              THEN new.title ELSE setup.title,
   active |-> IF new.active # None /\ new.active # setup.active
              THEN new.active ELSE setup.active]

PatchCommands(setup, new) ==
  IF new.title # None /\ new.title # setup.title THEN <<"Title">> ELSE <<>>

PatchRecreate(setup, new) == new.active # None /\ new.active # setup.active

\* fn ViewportContext::apply_commands: every command is a no-op.
apply_commands(context, commands) == context

(* ------------------- handle_output: viewport reconciliation ------------ *)

\* Keys of a map in iteration order (the order of an id-keyed hash map is a
\* function of the ids; ascending order stands for it).
RECURSIVE KeysInOrder(_)
KeysInOrder(S) ==
  IF S = {} THEN <<>>
  ELSE LET k == CHOOSE x \in S : \A y \in S : x <= y
       IN  <<k>> \o KeysInOrder(S \ {k})

\* Variant: the respawn is given the setup as it was before the patch.
reconcile_viewport_respawn_stale(w, id, vp_output, seen) ==
  IF ~seen
  THEN spawn_viewport(w, id, Some(<<vp_output.parent, vp_output.builder>>))
  ELSE LET viewport == w.viewports[id]
           patched  == PatchedBuilder(viewport.window_setup, vp_output.builder)
           commands == PatchCommands(viewport.window_setup, vp_output.builder)
           recreate == PatchRecreate(viewport.window_setup, vp_output.builder)
       IN  IF recreate
           THEN spawn_viewport(despawn_viewport(w, id), id,
                               Some(<<vp_output.parent, viewport.window_setup>>))
           ELSE [w EXCEPT !.viewports[id] =
                   apply_commands([viewport EXCEPT !.window_setup = patched],
                                  commands)]

\* lib.rs:310-324, one entry of output.viewport_output: spawn, patch or respawn.
reconcile_viewport(w, id, vp_output, seen) ==
  IF ~seen
  THEN spawn_viewport(w, id, Some(<<vp_output.parent, vp_output.builder>>))
  ELSE LET viewport == w.viewports[id]
           patched  == PatchedBuilder(viewport.window_setup, vp_output.builder)
           commands == PatchCommands(viewport.window_setup, vp_output.builder)
           recreate == PatchRecreate(viewport.window_setup, vp_output.builder)
       IN  IF recreate
           THEN \* take(&mut viewport.window_setup) hands over the patched setup
                spawn_viewport(despawn_viewport(w, id), id,
                               Some(<<vp_output.parent, patched>>))
           ELSE [w EXCEPT !.viewports[id] =
                   apply_commands([viewport EXCEPT !.window_setup = patched],
                                  commands)]

\* Variant: the guard taken for the removal is not dropped.
remove_entry_guard_kept(w, id) ==
  [Lock(w, ShareLock("repaint_schedule")) EXCEPT
     !.share.repaint_schedule = MapRemove(@, id)]

\* lib.rs:326-331, the entry of id is taken out of the schedule; the guard is
\* a temporary of the let statement.
remove_entry(w, id) ==
  Under(Lock(w, ShareLock("repaint_schedule")),
        [Lock(w, ShareLock("repaint_schedule")) EXCEPT
           !.share.repaint_schedule = MapRemove(@, id)],
        ShareLock("repaint_schedule"))

\* lib.rs:344, the entry is put back under a guard of its own.
reinsert_entry(w, id, repaint_at) ==
  Under(Lock(w, ShareLock("repaint_schedule")),
        [Lock(w, ShareLock("repaint_schedule")) EXCEPT
           !.share.repaint_schedule = MapInsert(@, id, repaint_at)],
        ShareLock("repaint_schedule"))

\* lib.rs:335-341, the entry is due: the deferred callback, if the output
\* carries one, runs with the UI context, and the id is pushed to the local
\* repainted_viewports (tr.repainted).  reentrant tells that the callback
\* asks for a repaint of its viewport.
fire_entry(w, id, vp_output, now, reentrant) ==
  IF vp_output.viewport_ui_cb
  THEN [UiCall([w EXCEPT !.tr.callbacks = Append(@, id)], "viewport_ui_cb",
               IF reentrant THEN Some(id) ELSE None, now)
          EXCEPT !.tr.repainted = Append(@, id)]
  ELSE [w EXCEPT !.tr.repainted = Append(@, id)]

\* Variant: an entry that is not yet due is taken out and not put back.
check_repaint_drop_early(w, id, vp_output, now, reentrant) ==
  IF id \notin DOMAIN w.share.repaint_schedule THEN remove_entry(w, id)
  ELSE IF w.share.repaint_schedule[id] <= now
  THEN fire_entry(remove_entry(w, id), id, vp_output, now, reentrant)
  ELSE remove_entry(w, id)

\* lib.rs:326-346, the repaint schedule entry of one viewport of the output.
check_repaint(w, id, vp_output, now, reentrant) ==
  IF id \notin DOMAIN w.share.repaint_schedule THEN remove_entry(w, id)
  ELSE IF w.share.repaint_schedule[id] <= now
  THEN fire_entry(remove_entry(w, id), id, vp_output, now, reentrant)
  ELSE reinsert_entry(remove_entry(w, id), id, w.share.repaint_schedule[id])

\* lib.rs:309-347, the loop over output.viewport_output.
RECURSIVE reconcile_loop(_, _, _, _, _, _)
reconcile_loop(w, ids, viewport_output, viewport_ids, now, reentrant) ==
  IF ids = <<>> \/ w.panic # "none" THEN w
  ELSE LET id == Head(ids)
           w1 == reconcile_viewport(w, id, viewport_output[id], id \in viewport_ids)
           w2 == check_repaint(w1, id, viewport_output[id], now, reentrant)
       IN  reconcile_loop(w2, Tail(ids), viewport_output, viewport_ids, now,
                          reentrant)

\* Variant: viewports the output no longer names are left alone.
despawn_loop_keep_all(w, ids) == w

\* lib.rs:349-352, despawn what the output no longer names.
RECURSIVE despawn_loop(_, _)
despawn_loop(w, ids) ==
  IF ids = <<>> \/ w.panic # "none" THEN w
  ELSE despawn_loop(despawn_viewport(w, Head(ids)), Tail(ids))

\* lib.rs:304-352
reconcile_viewports(w, viewport_output, now, reentrant) ==
  LET viewport_ids == DOMAIN w.viewports
      w1 == reconcile_loop(w, KeysInOrder(DOMAIN viewport_output),
                           viewport_output, viewport_ids, now, reentrant)
  IN  despawn_loop(w1, KeysInOrder(viewport_ids \ DOMAIN viewport_output))

(* ---------------------- handle_output: texture deltas ------------------ *)

\* A processed texture delta: its kind ("set", "patch", "free"), whether the
\* id had a descriptor before and has one after, what was signalled ("none",
\* "error_image", "error_texture", "warn_not_found", "panic") and the delta
\* processed for the same id just before it.
NoDelta == [kind |-> "none", log |-> "none"]

Record(w, kind, id, had, log, w_after) ==
  [w_after EXCEPT
     !.tr.tex = Append(@, [kind |-> kind, id |-> id, had |-> had,
                           has |-> id \in DOMAIN w_after.textures,
                           log |-> log, prev |-> w.tex_last[id]]),
     !.tr.steps = Append(@, IF kind = "free" THEN "free" ELSE "set"),
     !.tex_last[id] = [kind |-> kind, log |-> log]]

Log(w, level, what, id) ==
  [w EXCEPT !.tr.logs = Append(@, [level |-> level, what |-> what, id |-> id])]

\* Variant: a patch for an id without descriptor is skipped without a word.
patch_texture_lenient(w, id) ==
  IF id \notin DOMAIN w.textures
  THEN Record(w, "patch", id, FALSE, "none", w)
  ELSE Record(w, "patch", id, TRUE, "none",
              [w EXCEPT !.textures[id].gd_src_img = "blitted"])

\* lib.rs:405-415, a delta with a position: blit into the descriptor's image.
\* self.textures.get_mut(&id).unwrap() panics when there is no descriptor.
patch_texture(w, id) ==
  IF id \notin DOMAIN w.textures
  THEN Record(w, "patch", id, FALSE, "panic",
              [w EXCEPT !.panic = "unwrap_none_texture"])
  ELSE Record(w, "patch", id, TRUE, "none",
              [w EXCEPT !.textures[id].gd_src_img = "blitted"])

\* lib.rs:416-428, a delta without position: replace or insert the descriptor.
\* texture_ok is the host's answer to ImageTexture::create_from_image.
insert_texture(w, id, texture_ok) ==
  LET had == id \in DOMAIN w.textures
  IN  IF ~texture_ok
      THEN Record(w, "set", id, had, "error_texture",
                  Log(w, "error", "Failed to create texture from image!", id))
      ELSE Record(w, "set", id, had, "none",
                  [w EXCEPT !.textures = MapInsert(@, id, [gd_src_img |-> "image",
                                                           gd_tex |-> "texture"])])

\* lib.rs:356-430, one entry of output.textures_delta.set.  delta.image_ok is
\* the host's answer to Image::create_from_data.
set_texture(w, delta) ==
  IF ~delta.image_ok
  THEN Record(w, IF delta.pos # None THEN "patch" ELSE "set", delta.id,
              delta.id \in DOMAIN w.textures, "error_image",
              Log(w, "error", "Failed to create image from data!", delta.id))
  ELSE IF delta.pos # None
  THEN patch_texture(w, delta.id)
  ELSE insert_texture(w, delta.id, delta.texture_ok)

RECURSIVE set_textures(_, _)
set_textures(w, deltas) ==
  IF deltas = <<>> \/ w.panic # "none" THEN w
  ELSE set_textures(set_texture(w, Head(deltas)), Tail(deltas))

\* Variant: the descriptor is looked up but not removed.
free_texture_lookup_only(w, id) ==
  IF id \in DOMAIN w.textures
  THEN Record(w, "free", id, TRUE, "none", w)
  ELSE Record(w, "free", id, FALSE, "warn_not_found",
              Log(w, "warn", "Texture not found!", id))

\* lib.rs:485-494, one entry of output.textures_delta.free.
free_texture(w, id) ==
  IF id \in DOMAIN w.textures
  THEN Record(w, "free", id, TRUE, "none",
              [w EXCEPT !.textures = MapRemove(@, id)])
  ELSE Record(w, "free", id, FALSE, "warn_not_found",
              Log(w, "warn", "Texture not found!", id))

RECURSIVE free_textures(_, _)
free_textures(w, ids) ==
  IF ids = <<>> THEN w
  ELSE free_textures(free_texture(w, Head(ids)), Tail(ids))

(* ------------------- handle_output: canvas items and paint ------------- *)

\* RenderingServer::canvas_item_create: a rid no live item uses.
NewRid(items) == CHOOSE r \in 1..(Cardinality(DOMAIN items) + 1) : r \notin DOMAIN items

\* lib.rs:443-450, create items until the pool has one per primitive.
RECURSIVE grow_pool(_, _)
grow_pool(w, n) ==
  IF Len(w.canvas_items) >= n THEN w
  ELSE LET rid == NewRid(w.rs_items)
       IN  grow_pool([w EXCEPT !.canvas_items = Append(@, rid),
                               !.rs_items = MapInsert(@, rid, None)], n)

\* Variant: the excess items leave the pool but are not freed.
shrink_pool_truncate(w, n) ==
  [w EXCEPT !.canvas_items = SubSeq(@, 1, Min(n, Len(@)))]

\* lib.rs:453-458, drain(primitives.len()..) and free_rid each drained item.
shrink_pool(w, n) ==
  LET excess == {w.canvas_items[i] : i \in (n + 1)..Len(w.canvas_items)}
  IN  [w EXCEPT !.canvas_items = SubSeq(@, 1, Min(n, Len(@))),
                !.rs_items = [r \in DOMAIN @ \ excess |-> @[r]]]

\* lib.rs:440-458
bookkeep_canvas_items(w, n) == shrink_pool(grow_pool(w, n), n)

\* Variant: the descriptor is unwrapped.
render_mesh_unwrap(w, rid, mesh) ==
  IF mesh.texture_id \notin DOMAIN w.textures
  THEN [w EXCEPT !.panic = "unwrap_none_descriptor"]
  ELSE [w EXCEPT !.rs_items[rid] = Some(mesh.texture_id),
                 !.tr.painted = Append(@, "mesh")]

\* lib.rs:504-570, render_mesh: the item gets the triangles with the texture,
\* or stays cleared when the texture has no descriptor.
render_mesh(w, rid, mesh) ==
  IF mesh.texture_id \notin DOMAIN w.textures
  THEN [Log(w, "warn", "Missing Texture", mesh.texture_id)
          EXCEPT !.tr.painted = Append(@, "missing_texture"),
                 !.tr.steps = Append(@, "paint")]
  ELSE [w EXCEPT !.rs_items[rid] = Some(mesh.texture_id),
                 !.tr.painted = Append(@, "mesh"),
                 !.tr.steps = Append(@, "paint")]

\* lib.rs:461-480
RECURSIVE paint(_, _, _)
paint(w, primitives, idx_rid) ==
  IF idx_rid > Len(primitives) \/ w.panic # "none" THEN w
  ELSE LET primitive == primitives[idx_rid]
       IN  IF primitive.kind = "Callback"
           THEN [w EXCEPT !.panic = "unimplemented_callback"]
           ELSE LET rid == w.canvas_items[idx_rid]
                    cleared == [w EXCEPT !.rs_items[rid] = None]
                IN  IF primitive.is_empty
                    THEN paint([cleared EXCEPT !.tr.painted = Append(@, "empty"),
                                               !.tr.steps = Append(@, "paint")],
                               primitives, idx_rid + 1)
                    ELSE paint(render_mesh(cleared, rid, primitive),
                               primitives, idx_rid + 1)

\* Variant: every live viewport is told to repaint.
queue_redraws_all_live(w) ==
  [w EXCEPT !.tr.redrawn = KeysInOrder(DOMAIN w.viewports)]

\* lib.rs:496-501, queue_redraw on the control of each repainted viewport.
queue_redraws(w) == [w EXCEPT !.tr.redrawn = w.tr.repainted]

\* Variant: the textures the output frees are dropped before painting.
handle_output_free_first(w, output, now) ==
  LET w1 == reconcile_viewports(w, output.viewport_output, now, output.reentrant)
      w2 == free_textures(set_textures(w1, output.textures_delta.set),
                          output.textures_delta.free)
      w3 == IF w2.panic # "none" THEN w2
            ELSE paint(bookkeep_canvas_items(UiCall(w2, "tessellate", None, now),
                                             Len(output.primitives)),
                       output.primitives, 1)
  IN  IF w3.panic # "none" THEN w3 ELSE queue_redraws(w3)

\* lib.rs:301-502.  A panic leaves the rest of the routine undone.
handle_output(w, output, now) ==
  LET w1 == reconcile_viewports(w, output.viewport_output, now, output.reentrant)
      w2 == set_textures(w1, output.textures_delta.set)
      w3 == IF w2.panic # "none" THEN w2
            ELSE paint(bookkeep_canvas_items(UiCall(w2, "tessellate", None, now),
                                             Len(output.primitives)),
                       output.primitives, 1)
  IN  IF w3.panic # "none" THEN w3
      ELSE queue_redraws(free_textures(w3, output.textures_delta.free))

(* ------------------------------ environment --------------------------- *)

NOTHING == 0                       \* egui::Rect::NOTHING
ScreenRects == 1..MaxScreens       \* bounding boxes of the physical displays
\* Results of get_global_rect (one axis): a Rect2 is position and size.
ControlRects == {[position |-> 0, size |-> n] : n \in 1..MaxRects}
Delays == 0..MaxDelay
PassDelays == {0, 1}               \* time between the two Instant::now() of a tick

\* One entry of FullOutput.viewport_output.
ViewportOutput(builders, callbacks) ==
  [parent : {ROOT}, builder : builders, viewport_ui_cb : callbacks]

ViewportOutputs(builders, callbacks) ==
  UNION {[S -> ViewportOutput(builders, callbacks)] : S \in SUBSET ViewportIds}

\* One entry of FullOutput.textures_delta.set with the host's answers; answers
\* the code never asks for are fixed to TRUE.
SetDeltas ==
  {d \in [id : TextureIds, pos : {None, Some(0)},
          image_ok : BOOLEAN, texture_ok : BOOLEAN] :
     /\ (~d.image_ok => d.texture_ok)
     /\ (d.pos # None => d.texture_ok)}

\* A tessellated primitive.
Primitives ==
  {[kind |-> "Callback", texture_id |-> 1, is_empty |-> FALSE],
   [kind |-> "Mesh", texture_id |-> 1, is_empty |-> TRUE]}
  \cup {[kind |-> "Mesh", texture_id |-> t, is_empty |-> FALSE] : t \in TextureIds}

NoTextureDelta == [set |-> <<>>, free |-> <<>>]

(* -------------------------------- reports ------------------------------ *)

\* Window configurations requested by a viewport_output.
ConfigOf(viewport_output) ==
  [id \in DOMAIN viewport_output |-> viewport_output[id].builder]

\* Report of a handler run.  latest_config is the configuration requested in
\* the latest reconciliation pass (the other handlers carry it over),
\* same_config tells that a pass was asked for the configuration of the pass
\* before it, pool_before is the size of the canvas-item pool when the handler
\* started, focus_trail lists the focus notifications (at most three)
\* delivered since the last handler of another kind, focus_fallback tells
\* that the tick found the focus tuple naming a viewport that is not live, and
\* deferred is the set of viewports the pass's output gave a draw callback;
\* rect is the rectangle get_global_rect returned to request_repaint and
\* primitives the list tessellate returned to the pass.
Report(op) ==
  [op |-> op, vp |-> None, branch |-> "none", end_frames |-> 0, begin_frames |-> 0,
   raw |-> None, now |-> clock, n_primitives |-> 0, panic |-> "none",
   accepted |-> FALSE, tr |-> EmptyTrace, latest_config |-> last.latest_config,
   same_config |-> FALSE, pool_before |-> Len(canvas_items), focus_trail |-> <<>>,
   focus_fallback |-> FALSE, deferred |-> {}, rect |-> None, primitives |-> <<>>]

FocusReport(op, self_id) ==
  LET trail == Append(last.focus_trail, <<op, self_id>>)
  IN  [Report(op) EXCEPT
         !.vp = Some(self_id),
         !.focus_trail = IF Len(trail) > 3 THEN Tail(trail) ELSE trail]

(* ------------------------------- on_process ---------------------------- *)

\* Variant: any pending entry, due or not, makes the tick run.
should_repaint_any_entry(sched, now) == DOMAIN sched # {}

\* lib.rs:176-182
should_repaint(sched, now) == \E id \in DOMAIN sched : sched[id] < now

\* lib.rs:188-210, refresh of the render target when the bounding box changed.
refresh_screen(sh, cached, total_screen_rect) ==
  IF cached # total_screen_rect
  THEN [sh EXCEPT !.screen = [global_offset |-> total_screen_rect,
                              texture |-> total_screen_rect]]
  ELSE sh

\* lib.rs:188-210: the guard of the screen buffer (195) lives to the end of
\* the if block.
refresh_render_target(w, total_screen_rect) ==
  IF cached_screen_rect # total_screen_rect
  THEN Under(Lock(w, ShareLock("screen")),
             [Lock(w, ShareLock("screen")) EXCEPT
                !.share = refresh_screen(@, cached_screen_rect, total_screen_rect)],
             ShareLock("screen"))
  ELSE w

\* Variant: the focus tuple is used as it is found.
active_viewport_unchecked(w) == w.share.txrx_latest_focus_viewport

\* lib.rs:217-227, the focus tuple falls back to ROOT when its viewport is gone.
active_viewport(w) ==
  LET txrx == w.share.txrx_latest_focus_viewport
  IN  IF txrx[1] \notin DOMAIN w.viewports THEN <<ROOT, FALSE>> ELSE txrx

\* lib.rs:229-273, the RawInput handed to begin_frame (host-sampled time and
\* modifier keys left out).  Requires ROOT to be live.
raw_input(w) ==
  [viewport_id |-> active_viewport(w)[1],
   viewports   |-> [id \in DOMAIN w.viewports |->
                      [native_pixels_per_point |-> Some(1)] @@ w.viewports[id].input],
   screen_rect |-> w.viewports[ROOT].input.inner_rect,
   events      |-> w.share.txrx_events,
   focused     |-> active_viewport(w)[2]]

\* lib.rs:231-239, each viewport's snapshot is cloned under its own mutex.
RECURSIVE clone_inputs(_, _)
clone_inputs(w, ids) ==
  IF ids = <<>> \/ w.panic # "none" THEN w
  ELSE clone_inputs(Unlock(Lock(w, InputLock(Head(ids))), InputLock(Head(ids))),
                    Tail(ids))

\* The focus tuple is replaced under its mutex, the guard living for the
\* block that writes.
write_focus(w, txrx) ==
  Under(Lock(w, ShareLock("txrx_latest_focus_viewport")),
        [Lock(w, ShareLock("txrx_latest_focus_viewport")) EXCEPT
           !.share.txrx_latest_focus_viewport = txrx],
        ShareLock("txrx_latest_focus_viewport"))

\* lib.rs:241-273, ROOT's snapshot is read under a guard that lives to the
\* end of the let statement, in which the inbox is drained.
drain_inbox(w) ==
  Under(Lock(w, InputLock(ROOT)),
        [Lock(w, InputLock(ROOT)) EXCEPT !.share.txrx_events = <<>>],
        InputLock(ROOT))

\* lib.rs:217-283, the tail of on_process: resolve the focus tuple under its
\* mutex (block 217-227), assemble RawInput (indexing viewports[ROOT] panics
\* when ROOT is gone), drain the inbox and begin the next frame.  reentrant
\* tells that the UI library asks for a repaint of ROOT from begin_frame.
begin_next_frame(w, report, reentrant, now) ==
  IF ROOT \notin DOMAIN w.viewports
  THEN <<write_focus(w, active_viewport(w)),
         [report EXCEPT
            !.focus_fallback =
               (w.share.txrx_latest_focus_viewport[1] \notin DOMAIN w.viewports),
            !.panic = "index_root_missing"]>>
  ELSE <<UiCall([drain_inbox(clone_inputs(write_focus(w, active_viewport(w)),
                                          KeysInOrder(DOMAIN w.viewports)))
                   EXCEPT !.share.ctx.in_frame = TRUE],
                "begin_frame", IF reentrant THEN Some(ROOT) ELSE None, now),
         [report EXCEPT
            !.focus_fallback =
               (w.share.txrx_latest_focus_viewport[1] \notin DOMAIN w.viewports),
            !.raw = Some(raw_input(write_focus(w, active_viewport(w)))),
            !.begin_frames = 1]>>

\* Write the world a handler leaves behind into the variables.
Commit(w, report) ==
  \E left \in {w} :
    /\ viewports' = left.viewports
    /\ textures' = left.textures
    /\ canvas_items' = left.canvas_items
    /\ share' = left.share
    /\ nodes' = left.nodes
    /\ rs_items' = left.rs_items
    /\ tex_last' = left.tex_last
    /\ last' = [report EXCEPT !.tr = left.tr]

WindowsOf(ns) == {h \in DOMAIN ns : ns[h].class = "Window"}

\* Variant: the first tick returns right after spawning ROOT.
FirstTick_returns_early ==
  /\ in_tree /\ ~started
  /\ started' = TRUE
  /\ Commit(spawn_viewport(World, ROOT, None),
            [Report("on_process") EXCEPT !.branch = "first"])
  /\ UNCHANGED <<in_tree, cached_screen_rect, clock>>

\* lib.rs:169-175 then 217-283: the first tick.
FirstTick ==
  /\ in_tree /\ ~started
  /\ started' = TRUE
  /\ LET w == spawn_viewport(World, ROOT, None)
         r == begin_next_frame(w, [Report("on_process") EXCEPT !.branch = "first"],
                               FALSE, clock)
     IN  Commit(r[1], r[2])
  /\ UNCHANGED <<in_tree, cached_screen_rect, clock>>

\* lib.rs:176-186: no expired entry, return.
IdleTick ==
  /\ in_tree /\ started
  /\ ~should_repaint(share.repaint_schedule, clock)
  /\ last' = [Report("on_process") EXCEPT !.branch = "idle"]
  /\ UNCHANGED <<in_tree, bridge_state, clock, tex_last>>

\* lib.rs:176-283: end the frame in flight, reconcile its output, begin the next.
FrameTick(outputs, pass_delays) ==
  /\ in_tree /\ started
  /\ should_repaint(share.repaint_schedule, clock)
  /\ \E output \in outputs, total_screen_rect \in ScreenRects, dt \in pass_delays :
       /\ clock + dt <= MaxTime
       /\ \E w1 \in {handle_output(
                        UiCall([refresh_render_target(World, total_screen_rect)
                                  EXCEPT !.share.ctx.in_frame = FALSE],
                               "end_frame",
                               IF output.reentrant THEN Some(ROOT) ELSE None, clock),
                        output, clock + dt)} :
            LET now == clock + dt
                rep == [Report("on_process") EXCEPT
                          !.branch = "frame", !.end_frames = 1, !.now = now,
                          !.n_primitives = Len(output.primitives),
                          !.primitives = output.primitives,
                          !.latest_config = Some(ConfigOf(output.viewport_output)),
                          !.same_config =
                             (last.latest_config =
                                Some(ConfigOf(output.viewport_output))),
                          !.deferred = {id \in DOMAIN output.viewport_output :
                                          output.viewport_output[id].viewport_ui_cb},
                          !.panic = w1.panic]
            IN  /\ Cardinality(WindowsOf(w1.nodes)) <= MaxWindows
                /\ cached_screen_rect' = total_screen_rect
                /\ clock' = now
                /\ \E r \in {IF w1.panic # "none" THEN <<w1, rep>>
                              ELSE begin_next_frame(w1, rep, output.reentrant, now)} :
                     Commit(r[1], r[2])
  /\ UNCHANGED <<in_tree, started>>

\* fn on_process(&mut self, delta)
on_process(outputs, pass_delays) ==
  FirstTick \/ IdleTick \/ FrameTick(outputs, pass_delays)

(* --------------------- repaint requests and exit_tree ------------------ *)

\* The UI library (or code drawing with its context) asks for a repaint and
\* the library invokes the callback.
RequestRepaint(ids, delays) ==
  /\ in_tree
  /\ \E viewport_id \in ids, delay \in delays :
       Commit(request_repaint_callback(World, viewport_id, delay, clock),
              [Report("request_repaint_callback") EXCEPT !.vp = Some(viewport_id)])
  /\ UNCHANGED <<in_tree, started, cached_screen_rect, clock>>

\* fn exit_tree(&mut self)
exit_tree ==
  /\ in_tree
  /\ in_tree' = FALSE
  /\ IF ~started
     THEN Commit(World, Report("exit_tree"))
     ELSE LET freed == [World EXCEPT
                          !.canvas_items = <<>>,
                          !.rs_items = [r \in DOMAIN rs_items \ Range(canvas_items)
                                          |-> rs_items[r]]]
              ended == UiCall([freed EXCEPT !.share.ctx.in_frame = FALSE],
                              "end_frame", None, clock)
          IN  Commit(ended, [Report("exit_tree") EXCEPT !.end_frames = 1])
  /\ UNCHANGED <<started, cached_screen_rect, clock>>

\* Time passes.
AdvanceTime ==
  /\ in_tree
  /\ clock < MaxTime
  /\ clock' = clock + 1
  /\ last' = Report("time")
  /\ UNCHANGED <<in_tree, bridge_state, tex_last>>

(* ------------------ EguiViewportIoBridge (one per viewport) ------------ *)

\* fn to_egui_rect(rect: Rect2) -> egui::Rect
to_egui_rect(rect) == [min |-> rect.position, max |-> rect.position + rect.size]

\* The input snapshot of one viewport is replaced under its mutex, the guard
\* living for the block that writes.
write_input(w, self_id, input) ==
  Under(Lock(w, InputLock(self_id)),
        [Lock(w, InputLock(self_id)) EXCEPT !.viewports[self_id].input = input],
        InputLock(self_id))

\* lib.rs:715-725, ControlNotification::FocusEnter
focus_enter(w, self_id) ==
  write_input(write_focus(w, <<self_id, TRUE>>), self_id,
              [w.viewports[self_id].input EXCEPT !.focused = Some(TRUE)])

\* Variant: focus-exit writes the tuple without looking at its owner.
focus_exit_unconditional(w, self_id) ==
  write_input(write_focus(w, <<self_id, FALSE>>), self_id,
              [w.viewports[self_id].input EXCEPT !.focused = Some(FALSE)])

\* lib.rs:726-739, ControlNotification::FocusExit
focus_exit(w, self_id) ==
  write_input(write_focus(w, IF w.share.txrx_latest_focus_viewport[1] = self_id
                             THEN <<self_id, FALSE>>
                             ELSE w.share.txrx_latest_focus_viewport),
              self_id,
              [w.viewports[self_id].input EXCEPT !.focused = Some(FALSE)])

\* Variant: the rectangle is stored and no repaint is asked for.
request_repaint_store_only(w, self_id, rect) ==
  write_input(w, self_id,
              [w.viewports[self_id].input EXCEPT
                 !.inner_rect = Some(to_egui_rect(rect))])

\* fn request_repaint(&self), lib.rs:844-851: store the rectangle under the
\* snapshot's mutex (block 846-849), then request_repaint_of, which reaches
\* the repaint callback with a zero delay.
request_repaint(w, self_id, rect) ==
  UiCall(write_input(w, self_id,
                     [w.viewports[self_id].input EXCEPT
                        !.inner_rect = Some(to_egui_rect(rect))]),
         "request_repaint_of", Some(self_id), clock)

\* fn on_notification(&mut self, what)
on_notification ==
  /\ in_tree
  /\ \E self_id \in DOMAIN viewports :
       \/ Commit(focus_enter(World, self_id), FocusReport("FocusEnter", self_id))
       \/ Commit(focus_exit(World, self_id), FocusReport("FocusExit", self_id))
       \/ \E rect \in ControlRects :
            Commit(request_repaint(World, self_id, rect),
                   [Report("Resized") EXCEPT !.vp = Some(self_id),
                                             !.rect = Some(rect)])
  /\ UNCHANGED <<in_tree, started, cached_screen_rect, clock>>

\* Host input events by class.
InputEvents == {"InputEventMouseButton", "InputEventMouseMotion", "InputEventKey",
                "InputEventJoypadButton"}

\* fn gui_input(&mut self, event); the report's branch is the event's class.
gui_input ==
  /\ in_tree
  /\ \E self_id \in DOMAIN viewports, event \in InputEvents :
       LET event_accepted == event \in {"InputEventMouseButton",
                                        "InputEventMouseMotion", "InputEventKey"}
           report == [Report("gui_input") EXCEPT !.vp = Some(self_id),
                                                 !.branch = event,
                                                 !.accepted = event_accepted]
       IN  IF event_accepted
           THEN \E rect \in ControlRects :
                  Commit(request_repaint(World, self_id, rect),
                         [report EXCEPT !.rect = Some(rect)])
           ELSE Commit(World, report)
  /\ UNCHANGED <<in_tree, started, cached_screen_rect, clock>>

(* ----------------------------- specifications -------------------------- *)

\* The bridge after construction and ready().
Init ==
  /\ in_tree = TRUE
  /\ started = FALSE
  /\ viewports = EmptyMap
  /\ textures = EmptyMap
  /\ canvas_items = <<>>
  /\ share = [ctx |-> [in_frame |-> FALSE],
              screen |-> [global_offset |-> 0, texture |-> 0],
              txrx_latest_focus_viewport |-> <<ROOT, FALSE>>,
              txrx_events |-> <<>>,
              repaint_schedule |-> EmptyMap]
  /\ cached_screen_rect = NOTHING
  /\ nodes = EmptyMap
  /\ rs_items = EmptyMap
  /\ clock = 0
  /\ tex_last = [t \in TextureIds |-> NoDelta]
  /\ last = [op |-> "ready", vp |-> None, branch |-> "none", end_frames |-> 0,
             begin_frames |-> 0, raw |-> None, now |-> 0, n_primitives |-> 0,
             panic |-> "none", accepted |-> FALSE, tr |-> EmptyTrace,
             latest_config |-> None, same_config |-> FALSE, pool_before |-> 0,
             focus_trail |-> <<>>, focus_fallback |-> FALSE, deferred |-> {},
             rect |-> None, primitives |-> <<>>]

\* Outputs of the viewport-lifecycle specification: every viewport set and
\* configuration; nothing to paint.
LifecycleOutputs ==
  [viewport_output : ViewportOutputs(ViewportBuilders, {FALSE}),
   textures_delta : {NoTextureDelta},
   primitives : {<<>>},
   reentrant : {FALSE}]

\* Viewport lifecycle and repaint schedule.
Next ==
  \/ on_process(LifecycleOutputs, PassDelays)
  \/ RequestRepaint(ViewportIds, Delays)
  \/ AdvanceTime
  \/ exit_tree

Spec == Init /\ [][Next]_vars

\* Outputs of the focus specification: every viewport set, default
\* configuration, nothing to paint.
FocusOutputs ==
  [viewport_output : ViewportOutputs({DefaultBuilder}, {FALSE}),
   textures_delta : {NoTextureDelta},
   primitives : {<<>>},
   reentrant : {FALSE}]

\* Input/focus bridges against the frame loop.
NextFocus ==
  \/ on_process(FocusOutputs, {0})
  \/ on_notification
  \/ gui_input
  \/ AdvanceTime
  \/ exit_tree

SpecFocus == Init /\ [][NextFocus]_vars

\* Outputs of the paint specification: ROOT alone, every texture delta list
\* and primitive list within the bounds.
PaintOutputs ==
  [viewport_output : {[id \in {ROOT} |-> [parent |-> ROOT, builder |-> DefaultBuilder,
                                          viewport_ui_cb |-> FALSE]]},
   textures_delta : [set : SeqsUpTo(SetDeltas, MaxDeltas),
                     free : SeqsUpTo(TextureIds, MaxDeltas)],
   primitives : SeqsUpTo(Primitives, MaxPrims),
   reentrant : {FALSE}]

\* Texture registry and canvas-item pool.
NextPaint ==
  \/ on_process(PaintOutputs, {0})
  \/ RequestRepaint({ROOT}, {0})
  \/ AdvanceTime
  \/ exit_tree

SpecPaint == Init /\ [][NextPaint]_vars

\* Outputs of the liveness specification: the outputs of the focus
\* specification that name ROOT, as every output of the UI library does.
RootedOutputs == {o \in FocusOutputs : ROOT \in DOMAIN o.viewport_output}

\* The frame loop with a host that keeps ticking while time advances: the
\* bridge stays in the tree, process() is called again and again.
NextLive ==
  \/ on_process(RootedOutputs, {0})
  \/ RequestRepaint(ViewportIds, Delays)
  \/ AdvanceTime

\* lib.rs:170, 177-186: the conditions under which a tick goes on to end the
\* frame and reconcile.
FrameTickEnabled ==
  in_tree /\ started /\ should_repaint(share.repaint_schedule, clock)

\* Weak fairness of each branch of on_process and of the clock.  For the
\* frame tick the enabling condition is written out as FrameTickEnabled.
SpecLive ==
  /\ Init /\ [][NextLive]_vars
  /\ WF_vars(AdvanceTime)
  /\ WF_vars(FirstTick)
  /\ WF_vars(IdleTick)
  /\ \/ []<>(~FrameTickEnabled)
     \/ []<><<FrameTick(RootedOutputs, {0})>>_vars

\* Outputs of the schedule specification: every viewport set with or without
\* deferred draw callbacks, default configuration, nothing to paint or one
\* unsupported primitive.
SchedOutputs ==
  [viewport_output : ViewportOutputs({DefaultBuilder}, BOOLEAN),
   textures_delta : {NoTextureDelta},
   primitives : {<<>>, <<[kind |-> "Callback", texture_id |-> 1, is_empty |-> FALSE]>>},
   reentrant : {FALSE}]

\* Repaint schedule against the frame loop, deferred callbacks included.
NextSched ==
  \/ on_process(SchedOutputs, PassDelays)
  \/ RequestRepaint(ViewportIds, Delays)
  \/ AdvanceTime
  \/ exit_tree

SpecSched == Init /\ [][NextSched]_vars

\* Outputs of the lock specification: every viewport set with or without
\* deferred draw callbacks, and the UI library asking or not asking for
\* repaints from within the calls made to it.
LockOutputs ==
  [viewport_output : ViewportOutputs({DefaultBuilder}, BOOLEAN),
   textures_delta : {NoTextureDelta},
   primitives : {<<>>},
   reentrant : BOOLEAN]

\* Every handler that calls into the UI library or takes a mutex.
NextLock ==
  \/ on_process(LockOutputs, {0})
  \/ on_notification
  \/ gui_input
  \/ AdvanceTime
  \/ exit_tree

SpecLock == Init /\ [][NextLock]_vars

TypeOK ==
  /\ started \in BOOLEAN
  /\ DOMAIN viewports \subseteq ViewportIds
  /\ DOMAIN textures \subseteq TextureIds

(* --------------------------------- claims ------------------------------ *)

Schedule == share.repaint_schedule
FocusTuple == share.txrx_latest_focus_viewport
Live == DOMAIN viewports

\* C1: a tick of the started bridge during which no schedule entry has a
\* deadline <= now changes nothing of the bridge (viewport map, textures,
\* canvas items, schedule, inbox, focus tuple, cached screen rectangle, frame
\* state), ends and begins no frame and creates or releases no host object.
IdleTickChangesNothing ==
  [][(/\ last'.op = "on_process"
      /\ started
      /\ \A id \in DOMAIN Schedule : Schedule[id] > clock)
     => (/\ UNCHANGED bridge_state
         /\ last'.end_frames = 0
         /\ last'.begin_frames = 0
         /\ last'.tr = EmptyTrace)]_vars

\* An idle tick ran while a repaint was scheduled for later.
IdleTickWitness ==
  /\ last.op = "on_process" /\ last.branch = "idle"
  /\ DOMAIN Schedule # {}
  /\ \A id \in DOMAIN Schedule : Schedule[id] > clock
  /\ Cardinality(Live) = 2

NoWindowOutlivesViewport ==
  Cardinality(HostWindows) =
    Cardinality({id \in Live : viewports[id].parent_id # None})

TexEvents == {last.tr.tex[i] : i \in DOMAIN last.tr.tex}

\* A "free" delta processed right after a whole-image "set" delta of the same
\* texture id (in the same output or in the one before).
SetThenFree(e) == e.kind = "free" /\ e.prev.kind = "set"

\* C4 as stated: a whole-image "set" followed by a "free" of the same texture
\* id leaves no descriptor for the id and raises no error or warning.
SetThenFreeSilent ==
  \A e \in TexEvents :
    SetThenFree(e) => (~e.has /\ e.prev.log = "none" /\ e.log = "none")

\* C4 amended: a whole-image "set" followed by a "free" of the same texture id
\* leaves no descriptor for the id; nothing is logged when the host built the
\* image and the texture of the "set"; when the host failed to, the "set"
\* logged that error and the "free" warns exactly when it finds no descriptor.
SetThenFreeLeavesNone ==
  \A e \in TexEvents :
    SetThenFree(e) =>
      /\ ~e.has
      /\ e.id \notin DOMAIN textures
      /\ e.prev.log \in {"none", "error_image", "error_texture"}
      /\ (e.prev.log = "none" => e.log = "none")
      /\ (e.log = "warn_not_found" <=> ~e.had)
      /\ e.log \in {"none", "warn_not_found"}

\* A successful "set" was followed by a "free" that removed the descriptor.
SetThenFreeWitness ==
  \E e \in TexEvents :
    SetThenFree(e) /\ e.prev.log = "none" /\ e.had /\ ~e.has /\ e.log = "none"

\* C5 as stated: a patch delta for a texture id without descriptor is flagged
\* as a contract violation (the handler panics) and creates no descriptor.
PatchWithoutDescriptorPanics ==
  \A e \in TexEvents :
    (e.kind = "patch" /\ ~e.had)
      => (e.log = "panic" /\ last.panic = "unwrap_none_texture" /\ ~e.has)

\* C5 amended: a patch delta for a texture id without descriptor is never
\* passed over in silence and never creates a descriptor: the handler panics
\* on it when the host built the delta's image, and logs the image-creation
\* error and drops the delta when the host did not.
PatchWithoutDescriptorFlagged ==
  \A e \in TexEvents :
    (e.kind = "patch" /\ ~e.had)
      => /\ e.log \in {"panic", "error_image"}
         /\ ~e.has
         /\ (e.log = "panic" => last.panic = "unwrap_none_texture")

\* A patch delta for a texture id without descriptor made the handler panic.
PatchPanicWitness ==
  \E e \in TexEvents : e.kind = "patch" /\ ~e.had /\ e.log = "panic"

\* The reconciliation pass of the last tick got as far as the canvas items.
PassReachedPainting ==
  last.branch = "frame" /\ last.panic # "unwrap_none_texture"

\* C9: after a reconciliation pass the pool holds one canvas item per
\* tessellated primitive, and at all times the canvas items alive in the host
\* are exactly the items of the pool, each once.
PoolMatchesPrimitives ==
  /\ PassReachedPainting => Len(canvas_items) = last.n_primitives
  /\ Range(canvas_items) = DOMAIN rs_items
  /\ Cardinality(DOMAIN rs_items) = Len(canvas_items)

\* A pass with fewer primitives than the frame before it released the excess.
PoolShrinkWitness ==
  /\ last.branch = "frame" /\ last.panic = "none"
  /\ last.n_primitives >= 1
  /\ last.pool_before > last.n_primitives

\* C6: a reconciliation pass asked for the viewport ids and window
\* configurations of the pass before it spawns nothing, despawns nothing and
\* leaves the viewport map as it was.
ReconcileIdempotent ==
  [][(last'.op = "on_process" /\ last'.branch = "frame" /\ last'.same_config)
     => (/\ viewports' = viewports
         /\ last'.tr.spawned = <<>>
         /\ last'.tr.despawned = <<>>
         /\ last'.tr.created = <<>>
         /\ last'.tr.released = <<>>)]_vars

\* A pass repeated the request of the pass before it, two windowed-or-not
\* viewports being live and one of them asking for a recreating field.
RepeatedPassWitness ==
  /\ last.branch = "frame" /\ last.same_config
  /\ Cardinality(Live) = 2
  /\ \E id \in Live : last.latest_config[1][id].active # None

\* C7 as stated: the first tick marks the bridge started, spawns ROOT alone and
\* without window, and does no frame processing: no end_frame, no
\* reconciliation, no RawInput and no begin_frame.
FirstTickSpawnsRoot ==
  last.branch = "first"
    => /\ started
       /\ Live = {ROOT}
       /\ Len(last.tr.spawned) = 1
       /\ last.tr.spawned[1].id = ROOT /\ ~last.tr.spawned[1].windowed
       /\ HostWindows = {}
       /\ last.tr.despawned = <<>>
       /\ last.end_frames = 0

FirstTickNoFrameProcessing ==
  last.branch = "first"
    => (FirstTickSpawnsRoot /\ last.raw = None /\ last.begin_frames = 0)

\* C7 amended: the first tick marks the bridge started, spawns ROOT alone and
\* without window, ends no frame and reconciles nothing, and then assembles a
\* RawInput naming ROOT and begins the first frame with it.
FirstTickBeginsFrame ==
  /\ (last.branch = "first"
        => /\ FirstTickSpawnsRoot
           /\ last.begin_frames = 1
           /\ last.raw # None
           /\ last.raw[1].viewport_id = ROOT
           /\ DOMAIN last.raw[1].viewports = {ROOT}
           /\ share.ctx.in_frame)
  /\ (last.op = "ready" => ~started)
  /\ (~started => Live = {} /\ ~share.ctx.in_frame)

\* The first tick has run.
FirstTickWitness == last.op = "on_process" /\ last.branch = "first" /\ started

\* The spawns of the last pass for ids that were not live before it.
UnseenSpawns ==
  {i \in DOMAIN last.tr.spawned :
     last.tr.spawned[i].id \notin Range(last.tr.despawned)}

CreatedFor(id, class) ==
  {i \in DOMAIN last.tr.created :
     last.tr.created[i].vid = id /\ last.tr.created[i].class = class}

\* C8: a pass that meets an id missing from the viewport map spawns it once,
\* creating one host window below the bridge and one host control below that
\* window, and the new context records the requested parent id and the
\* requested window configuration.
UnseenIdSpawnsWindowAndControl ==
  last.branch = "frame" =>
    \A i \in UnseenSpawns :
      LET sp == last.tr.spawned[i]
      IN  /\ sp.windowed
          /\ \A j \in DOMAIN last.tr.spawned : last.tr.spawned[j].id = sp.id => j = i
          /\ Cardinality(CreatedFor(sp.id, "Window")) = 1
          /\ Cardinality(CreatedFor(sp.id, "Control")) = 1
          /\ sp.id \in Live
          /\ viewports[sp.id].control = sp.control
          /\ sp.control \in DOMAIN nodes /\ sp.window[1] \in DOMAIN nodes
          /\ nodes[sp.control] = [class |-> "Control", parent |-> sp.window[1],
                                  vid |-> sp.id]
          /\ nodes[sp.window[1]] = [class |-> "Window", parent |-> BRIDGE,
                                    vid |-> sp.id]
          /\ viewports[sp.id].parent_id = Some(ROOT)
          /\ viewports[sp.id].window_setup = last.latest_config[1][sp.id]

\* A pass spawned a viewport other than ROOT that asked for a configuration.
UnseenSpawnWitness ==
  /\ last.branch = "frame"
  /\ \E i \in UnseenSpawns :
       /\ last.tr.spawned[i].id # ROOT
       /\ last.latest_config[1][last.tr.spawned[i].id] # DefaultBuilder

\* C10: focus-enter on A then on B (A # B) leaves the focus tuple at (B, true)
\* and a focus-exit from A after that leaves it there; a focus-exit changes
\* the tuple, to (self, false), only when the tuple names the notifying
\* viewport, and always sets that viewport's snapshot flag to false.
StaleFocusExitIgnored ==
  [][/\ (last'.op = "FocusEnter" => FocusTuple' = <<last'.vp[1], TRUE>>)
     /\ (last'.op = "FocusExit" =>
           /\ FocusTuple' = IF FocusTuple[1] = last'.vp[1]
                            THEN <<last'.vp[1], FALSE>> ELSE FocusTuple
           /\ viewports'[last'.vp[1]].input.focused = Some(FALSE))
     /\ \A a, b \in ViewportIds :
          (a # b /\ last'.focus_trail =
                      <<<<"FocusEnter", a>>, <<"FocusEnter", b>>, <<"FocusExit", a>>>>)
            => (FocusTuple' = <<b, TRUE>> /\ FocusTuple' = FocusTuple)]_vars

\* Focus entered A, then B, then A reported its focus-exit.
StaleFocusExitWitness ==
  \E a, b \in Live :
    /\ a # b
    /\ last.focus_trail = <<<<"FocusEnter", a>>, <<"FocusEnter", b>>, <<"FocusExit", a>>>>
    /\ FocusTuple = <<b, TRUE>>
    /\ viewports[a].input.focused = Some(FALSE)

\* C11: on every tick that begins a frame, RawInput.viewport_id is the id of a
\* viewport that is live when the frame begins and RawInput carries the focus
\* tuple as the tick leaves it; a tuple naming a viewport that is not live is
\* rewritten to (ROOT, false) and RawInput then names ROOT, unfocused, while a
\* tuple naming a live viewport is left as it was.
ActiveViewportValid ==
  [][(last'.op = "on_process" /\ last'.begin_frames = 1)
     => LET raw == last'.raw[1]
        IN  /\ raw.viewport_id \in DOMAIN viewports'
            /\ raw.viewport_id \in DOMAIN raw.viewports
            /\ FocusTuple' = <<raw.viewport_id, raw.focused>>
            /\ IF FocusTuple[1] \in DOMAIN viewports'
               THEN FocusTuple' = FocusTuple /\ ~last'.focus_fallback
               ELSE /\ FocusTuple' = <<ROOT, FALSE>>
                    /\ raw.viewport_id = ROOT /\ ~raw.focused
                    /\ last'.focus_fallback]_vars

\* A tick despawned the viewport the focus tuple named and began a frame.
ActiveViewportFallbackWitness ==
  /\ last.op = "on_process" /\ last.begin_frames = 1
  /\ last.focus_fallback
  /\ last.tr.despawned # <<>>
  /\ last.raw[1].viewport_id = ROOT /\ ~last.raw[1].focused
  /\ FocusTuple = <<ROOT, FALSE>>

\* C12: once the first tick has run, whatever the UI library outputs, the
\* viewport map holds a context for ROOT, and no tick fails to read ROOT's
\* inner rectangle while assembling RawInput.
RootAlwaysPresent ==
  started => (ROOT \in Live /\ last.panic # "index_root_missing")

\* C13: every pointer-button, pointer-motion or key event delivered to a
\* viewport's gui_input is consumed, adds one event to the shared inbox and
\* leaves a repaint scheduled for that viewport.
RawInputForwarded ==
  [][(/\ last'.op = "gui_input"
      /\ last'.branch \in {"InputEventMouseButton", "InputEventMouseMotion",
                          "InputEventKey"})
     => (/\ last'.accepted
         /\ Len(share'.txrx_events) = Len(share.txrx_events) + 1
         /\ last'.vp[1] \in DOMAIN Schedule')]_vars

\* C15: a tick that reconciles an output is halted by nothing but an
\* unsupported (callback) primitive: whatever texture or primitive failure it
\* meets, the pass runs to its end (the redraws are queued) and the tick
\* begins the next frame.
FailuresContained ==
  last.branch = "frame" =>
    /\ last.panic \in {"none", "unimplemented_callback"}
    /\ (last.panic = "none" =>
          /\ last.tr.redrawn = last.tr.repainted
          /\ last.begin_frames = 1 /\ share.ctx.in_frame)

\* The deadline scheduled for the viewport has passed.
Expired(id) == id \in DOMAIN Schedule /\ Schedule[id] < clock

\* C16: under a host that keeps ticking, every schedule entry whose deadline
\* has passed is eventually fired by a reconciliation pass, which removes it
\* and requests the redraw of its viewport (unless a new request replaces it
\* by a deadline still to come): no entry stays overdue forever.
EveryDeadlineFires ==
  \A id \in ViewportIds :
    Expired(id) ~> \/ last.branch = "frame" /\ id \in Range(last.tr.redrawn)
                   \/ id \in DOMAIN Schedule /\ Schedule[id] >= clock

\* C17: a reconciliation pass leaves every schedule entry whose deadline is
\* later than the pass's now in place with the same deadline, and an entry
\* leaves the schedule only in a pass, when its deadline is due (<= now), its
\* viewport is in the output and it is fired.
NoDeadlineDroppedEarly ==
  [][/\ (last'.op = "on_process" /\ last'.branch = "frame")
          => \A id \in DOMAIN Schedule :
               Schedule[id] > last'.now
                 => (id \in DOMAIN Schedule' /\ Schedule'[id] = Schedule[id])
     /\ \A id \in DOMAIN Schedule \ DOMAIN Schedule' :
          /\ last'.op = "on_process" /\ last'.branch = "frame"
          /\ Schedule[id] <= last'.now
          /\ id \in DOMAIN last'.latest_config[1]
          /\ id \in Range(last'.tr.repainted)]_vars

\* A pass fired a due entry and put back the entry, not yet due, of another
\* viewport of its output.
NotDueReinsertedWitness ==
  /\ last.op = "on_process" /\ last.branch = "frame"
  /\ last.tr.repainted # <<>>
  /\ \E id \in DOMAIN last.latest_config[1] :
       id \in DOMAIN Schedule /\ Schedule[id] > last.now

\* C18: after a pass has despawned a viewport id (and not respawned it), the
\* bridge holds nothing for the id: no viewport context, no host control or
\* window made for it, and no repaint-schedule entry.
NoStateAfterDespawn ==
  last.branch = "frame" =>
    \A i \in DOMAIN last.tr.despawned :
      LET id == last.tr.despawned[i]
      IN  id \notin DOMAIN last.latest_config[1]
            => /\ id \notin Live
               /\ \A h \in DOMAIN nodes : nodes[h].vid # id
               /\ id \notin DOMAIN Schedule

\* The viewport ids of the output of the last pass.
Requested == DOMAIN last.latest_config[1]

\* C19: after a reconciliation pass the keys of the viewport map are the ids
\* of the pass's output: an id of the output that was not live is spawned
\* once, a live id of the output is kept or despawned and respawned, and a live
\* id missing from the output is despawned and not spawned.
LiveSetIsRequestedSet ==
  [][(last'.op = "on_process" /\ last'.branch = "frame")
     => LET spawned   == {last'.tr.spawned[i].id : i \in DOMAIN last'.tr.spawned}
            despawned == Range(last'.tr.despawned)
        IN  /\ Live' = Requested'
            /\ \A id \in Requested' \ Live : id \in spawned /\ id \notin despawned
            /\ \A id \in Requested' \cap Live : id \in despawned <=> id \in spawned
            /\ \A id \in Live \ Requested' : id \in despawned /\ id \notin spawned
            /\ spawned \subseteq Requested'
            /\ despawned \subseteq Live]_vars

\* A pass despawned a viewport missing from its output while another
\* viewport, named by the output, stays live.
DespawnAbsentWitness ==
  /\ last.op = "on_process" /\ last.branch = "frame"
  /\ \E id \in Range(last.tr.despawned) : id \notin Requested /\ id \notin Live
  /\ \E id \in Live : id \notin Range(last.tr.despawned)
  /\ Live = Requested

\* The indices of the spawns / despawns of a viewport id in a trace.
SpawnsOf(tr, id) == {i \in DOMAIN tr.spawned : tr.spawned[i].id = id}
DespawnsOf(tr, id) == {i \in DOMAIN tr.despawned : tr.despawned[i] = id}

\* C20 as stated: a viewport recreated by a pass (despawned and spawned again
\* for the same id) is live at the end of the pass after exactly one despawn
\* and one spawn, and its last-applied configuration is the configuration the
\* output requested for it.
RecreateAdoptsRequest ==
  (last.op = "on_process" /\ last.branch = "frame") =>
    \A id \in Requested :
      (DespawnsOf(last.tr, id) # {} /\ SpawnsOf(last.tr, id) # {})
        => /\ id \in Live
           /\ Cardinality(DespawnsOf(last.tr, id)) = 1
           /\ Cardinality(SpawnsOf(last.tr, id)) = 1
           /\ viewports[id].window_setup = last.latest_config[1][id]

\* C20 amended: when the output asks a live viewport for a value of the recreating
\* field other than the one last applied, the same pass despawns the context
\* once and spawns one again for the id, which is live at the end of the pass
\* with a fresh snapshot; the new context's last-applied configuration is the
\* former one updated with the request (each field the request specifies has
\* the requested value), so the same request demands no recreation and no
\* command again; a live viewport whose request demands no recreation is
\* neither despawned nor spawned.
RecreateWithinOnePass ==
  [][(last'.op = "on_process" /\ last'.branch = "frame")
     => \A id \in Live \cap Requested' :
          LET old == viewports[id].window_setup
              new == last'.latest_config[1][id]
              now_setup == viewports'[id].window_setup
          IN  IF new.active # None /\ new.active # old.active
              THEN /\ id \in Live'
                   /\ Cardinality(DespawnsOf(last'.tr, id)) = 1
                   /\ Cardinality(SpawnsOf(last'.tr, id)) = 1
                   /\ viewports'[id].input = DefaultViewportInfo
                   /\ now_setup.active = new.active
                   /\ now_setup.title = IF new.title # None THEN new.title
                                        ELSE old.title
                   /\ ~(new.active # None /\ new.active # now_setup.active)
                   /\ ~(new.title # None /\ new.title # now_setup.title)
              ELSE /\ DespawnsOf(last'.tr, id) = {}
                   /\ SpawnsOf(last'.tr, id) = {}]_vars

\* A pass despawned and respawned a live viewport other than ROOT whose former
\* configuration had a title the request does not specify.
RecreateWitness ==
  /\ last.op = "on_process" /\ last.branch = "frame"
  /\ \E id \in Live \ {ROOT} :
       /\ DespawnsOf(last.tr, id) # {} /\ SpawnsOf(last.tr, id) # {}
       /\ last.latest_config[1][id].active # None
       /\ last.latest_config[1][id].title = None
       /\ viewports[id].window_setup.title # None

(* ------------------------- expired deadlines (C21) --------------------- *)

\* A sequence names no element twice.
NoRepeats(s) == \A i, j \in 1..Len(s) : i # j => s[i] # s[j]

\* C21: in a reconciliation pass, every viewport of the output whose schedule
\* entry has a deadline at or before the pass's time has its entry removed and
\* its deferred draw callback, when the output gave one, invoked once; once
\* painting is over exactly these viewports, each once and each live, have
\* their control told to repaint, and a pass that halts before that point
\* tells no control to repaint.
ExpiredDeadlineHandled ==
  [][(last'.op = "on_process" /\ last'.branch = "frame") =>
       LET ids == DOMAIN last'.latest_config[1]
           due == {id \in ids \cap DOMAIN Schedule : Schedule[id] <= last'.now}
       IN  /\ \A id \in due : id \notin DOMAIN share'.repaint_schedule
           /\ NoRepeats(last'.tr.callbacks)
           /\ Range(last'.tr.callbacks) = due \cap last'.deferred
           /\ NoRepeats(last'.tr.redrawn)
           /\ Range(last'.tr.redrawn) \subseteq DOMAIN viewports'
           /\ IF last'.panic \in {"none", "index_root_missing"}
              THEN Range(last'.tr.redrawn) = due
              ELSE last'.tr.redrawn = <<>>]_vars

\* A completed pass fired one viewport's deadline through its deferred
\* callback and told it to repaint, while another viewport of the output,
\* whose entry was not due, keeps its entry and is not told to repaint.
ExpiredDeadlineWitness ==
  /\ last.op = "on_process" /\ last.branch = "frame" /\ last.panic = "none"
  /\ last.tr.callbacks # <<>>
  /\ last.tr.redrawn = last.tr.callbacks
  /\ \E id \in Requested \cap DOMAIN Schedule :
       /\ Schedule[id] > last.now
       /\ id \notin Range(last.tr.redrawn)

(* --------------------------- idle threshold (C22) ---------------------- *)

\* C22: a tick after start goes on to frame processing exactly when some
\* schedule entry has a deadline at or before the tick's current time, the
\* comparison the reconciliation pass uses for each viewport.
IdleThresholdInclusive ==
  [][(last'.op = "on_process" /\ started) =>
       (last'.branch = "frame" <=>
          \E id \in DOMAIN Schedule : Schedule[id] <= clock)]_vars

(* ------------------------ resize notification (C23) -------------------- *)

\* C23: a resize notification stores the recomputed global rectangle in the
\* viewport's input snapshot and puts a deadline equal to the request time
\* (zero delay) into the schedule under the viewport's id.  The entry stays
\* until a frame tick takes it, every tick at a later time that finds it is
\* not idle, a tick leaves the snapshot of every viewport it keeps as it was,
\* and the RawInput of every frame begun carries, for each live viewport, the
\* rectangle of its snapshot (for ROOT also as screen_rect).
ResizeSchedulesRepaint ==
  [][/\ last'.op = "Resized" =>
          /\ viewports'[last'.vp[1]].input.inner_rect =
               Some(to_egui_rect(last'.rect[1]))
          /\ share'.repaint_schedule = MapInsert(Schedule, last'.vp[1], clock)
     /\ last'.branch # "frame" => DOMAIN Schedule \subseteq DOMAIN share'.repaint_schedule
     /\ (last'.op = "on_process" /\ started
           /\ \E id \in DOMAIN Schedule : Schedule[id] < clock) =>
          last'.branch = "frame"
     /\ last'.op = "on_process" =>
          \A id \in DOMAIN viewports \cap DOMAIN viewports' :
             id \notin Range(last'.tr.despawned) =>
               viewports'[id].input = viewports[id].input
     /\ (last'.op = "on_process" /\ last'.begin_frames = 1) =>
          /\ DOMAIN last'.raw[1].viewports = DOMAIN viewports'
          /\ \A id \in DOMAIN viewports' :
               last'.raw[1].viewports[id].inner_rect =
                 viewports'[id].input.inner_rect
          /\ last'.raw[1].screen_rect = viewports'[ROOT].input.inner_rect]_vars

\* A frame tick fired the deadline of a viewport other than ROOT and began a
\* frame whose RawInput carries for it the larger rectangle and for ROOT the
\* smaller one: both came from resize notifications.
ResizeWitness ==
  /\ last.op = "on_process" /\ last.branch = "frame" /\ last.begin_frames = 1
  /\ \E id \in DOMAIN viewports \ {ROOT} :
       /\ id \in Range(last.tr.redrawn)
       /\ last.raw[1].viewports[id].inner_rect =
            Some(to_egui_rect([position |-> 0, size |-> 2]))
       /\ last.raw[1].screen_rect =
            Some(to_egui_rect([position |-> 0, size |-> 1]))

(* ----------------------- mutexes and UI calls (C24) -------------------- *)

UiCalls == {"end_frame", "begin_frame", "tessellate", "viewport_ui_cb",
            "request_repaint_of"}

\* C24: whenever a handler calls into the UI library (end_frame,
\* begin_frame, tessellate, a deferred draw callback, request_repaint_of) it
\* holds none of the mutexes (repaint schedule, focus tuple, screen buffer,
\* input snapshots), and no handler ever locks a mutex it already holds: the
\* repaint callback, when the library invokes it from inside such a call,
\* gets the schedule's mutex.
NoLockAcrossUiCalls ==
  /\ last.panic # "self_deadlock"
  /\ \A i \in DOMAIN last.tr.ui_calls :
       /\ last.tr.ui_calls[i].call \in UiCalls
       /\ last.tr.ui_calls[i].held = {}

\* A tick ended a frame, ran the deferred callback of a viewport whose
\* deadline was due, and the callback's own repaint request went through the
\* repaint callback: the entry taken out is back with the time of the pass.
ReentrantRequestWitness ==
  /\ last.op = "on_process" /\ last.branch = "frame" /\ last.panic = "none"
  /\ {last.tr.ui_calls[i].call : i \in DOMAIN last.tr.ui_calls} =
       {"end_frame", "viewport_ui_cb", "tessellate", "begin_frame"}
  /\ \E id \in Range(last.tr.callbacks) \ {ROOT} :
       /\ id \in DOMAIN Schedule
       /\ Schedule[id] = last.now

(* -------------------------- missing texture (C25) ---------------------- *)

\* Index of the first unsupported primitive of the pass just reported, or one
\* past the list when there is none: the paint loop stops there.
PaintStop ==
  LET prims == last.primitives
      cbs   == {i \in DOMAIN prims : prims[i].kind = "Callback"}
  IN  IF cbs = {} THEN Len(prims) + 1
      ELSE CHOOSE i \in cbs : \A j \in cbs : i <= j

\* Texture ids that had a descriptor while the pass just reported painted:
\* those that have one now and those the pass freed afterwards.
TexturesAtPaint ==
  DOMAIN textures \cup {e.id : e \in {x \in TexEvents : x.kind = "free" /\ x.had}}

\* Lines of the given kind the pass logged for texture id t.
Logged(level, what, t) ==
  {j \in DOMAIN last.tr.logs :
     last.tr.logs[j] = [level |-> level, what |-> what, id |-> t]}

\* C25: a mesh primitive whose texture id has no descriptor leaves its own
\* draw handle cleared and empty and logs one warning; it does not stop the
\* pass: every other primitive of the frame, before or after it, is painted
\* into its own handle (up to an unsupported primitive, the only thing that
\* halts painting).
MissingTextureSkipped ==
  (last.op = "on_process" /\ PassReachedPainting) =>
    /\ Len(last.tr.painted) = PaintStop - 1
    /\ (PaintStop > Len(last.primitives)) = (last.panic # "unimplemented_callback")
    /\ last.panic \in {"none", "unimplemented_callback", "index_root_missing"}
    /\ \A i \in 1..(PaintStop - 1) :
         LET p == last.primitives[i]
             rid == canvas_items[i]
         IN  IF p.is_empty
             THEN last.tr.painted[i] = "empty" /\ rs_items[rid] = None
             ELSE IF p.texture_id \in TexturesAtPaint
             THEN last.tr.painted[i] = "mesh" /\ rs_items[rid] = Some(p.texture_id)
             ELSE last.tr.painted[i] = "missing_texture" /\ rs_items[rid] = None
    /\ \A t \in TextureIds :
         Cardinality(Logged("warn", "Missing Texture", t)) =
           Cardinality({i \in 1..(PaintStop - 1) :
                          /\ last.tr.painted[i] = "missing_texture"
                          /\ last.primitives[i].texture_id = t})

\* A completed pass skipped a mesh whose texture had no descriptor and
\* painted the mesh after it, which uses another texture.
MissingTextureWitness ==
  /\ last.op = "on_process" /\ last.branch = "frame" /\ last.panic = "none"
  /\ last.tr.painted = <<"missing_texture", "mesh">>
  /\ rs_items[canvas_items[1]] = None
  /\ rs_items[canvas_items[2]] # None

(* ---------------------- frame begin/end alternation (C26) -------------- *)

\* C26: end_frame is called only while a frame is in flight and begin_frame
\* only while none is; the first tick begins a frame without ending one,
\* every later non-idle tick ends one frame and then begins one, an idle tick
\* does neither, and exit_tree ends the frame in flight exactly when the
\* bridge was started.
FramesAlternate ==
  [][/\ last'.end_frames = 1 => share.ctx.in_frame
     /\ last'.begin_frames = 1 => (last'.end_frames = 1 \/ ~share.ctx.in_frame)
     /\ (last'.op = "on_process" /\ last'.branch = "first") =>
          (last'.end_frames = 0 /\ last'.begin_frames = 1)
     /\ (last'.op = "on_process" /\ last'.branch = "frame") =>
          (last'.end_frames = 1 /\ last'.begin_frames = 1)
     /\ (last'.op = "on_process" /\ last'.branch = "idle") =>
          (last'.end_frames = 0 /\ last'.begin_frames = 0)
     /\ last'.op = "exit_tree" => (last'.end_frames = 1) = started]_vars

(* --------------------------- ROOT embedded (C27) ----------------------- *)

\* C27: ROOT never has a host window: no window of the host belongs to ROOT,
\* and while ROOT is live its control sits directly below the bridge and its
\* context names neither a window nor a parent viewport.
RootStaysEmbedded ==
  /\ \A h \in HostWindows : nodes[h].vid # ROOT
  /\ ROOT \in DOMAIN viewports =>
       /\ viewports[ROOT].window = None
       /\ viewports[ROOT].parent_id = None
       /\ nodes[viewports[ROOT].control].parent = BRIDGE

(* ------------------ texture deltas around painting (C28) --------------- *)

\* C28: within one pass every "set" delta is applied before any primitive is
\* painted and every "free" delta after all of them.  So a mesh whose texture
\* was set by the same output finds the descriptor, and a mesh whose texture
\* the same output frees is still painted with it, the descriptor being gone
\* once the pass is over.
TextureDeltasAroundPainting ==
  (last.op = "on_process" /\ last.branch = "frame") =>
    /\ \A i, j \in DOMAIN last.tr.steps :
         i < j => /\ ~(last.tr.steps[i] = "paint" /\ last.tr.steps[j] = "set")
                  /\ ~(last.tr.steps[i] = "free" /\ last.tr.steps[j] # "free")
    /\ \A i \in DOMAIN last.tr.painted :
         LET p == last.primitives[i]
         IN  ~p.is_empty =>
               /\ (\E e \in TexEvents :
                     e.kind = "set" /\ e.id = p.texture_id /\ e.log = "none") =>
                    last.tr.painted[i] = "mesh"
               /\ (\E e \in TexEvents :
                     e.kind = "free" /\ e.id = p.texture_id /\ e.had) =>
                    /\ last.tr.painted[i] = "mesh"
                    /\ rs_items[canvas_items[i]] = Some(p.texture_id)
                    /\ p.texture_id \notin DOMAIN textures

\* One output set a texture that had no descriptor, painted a mesh with it
\* and freed it.
SetPaintFreeWitness ==
  /\ last.op = "on_process" /\ last.branch = "frame" /\ last.panic = "none"
  /\ last.tr.steps = <<"set", "paint", "free">>
  /\ last.tr.painted = <<"mesh">>
  /\ \E e, f \in TexEvents :
       /\ e.kind = "set" /\ ~e.had /\ e.log = "none"
       /\ f.kind = "free" /\ f.had
       /\ e.id = f.id /\ e.id = last.primitives[1].texture_id

====
